---- MODULE Spec2Model ----
(***************************************************************************)
(* Model of the Salesforce data-transfer engine (DataTransferService) and  *)
(* of the two panel handlers that drive it (DataTransferPanel).            *)
(*                                                                         *)
(* One step of the model is one synchronous segment of a handler: from the *)
(* moment a remote call returns up to the next remote call it awaits.      *)
(* The resolution of one parent object type (handleInsertModeParents /     *)
(* handleUpsertModeParents) is taken as one step.                          *)
(***************************************************************************)
EXTENDS Integers, Sequences, FiniteSets, TLC

\* ------------------------------------------------------------------ bounds
MaxRecs == 2        \* records one source query returns
MaxBatch == 2       \* largest batchSize a run is started with
MaxPreviews == 1    \* query previews issued beside the transfer
MaxErrs == 3        \* longest array handed to stringifyErrors
MaxRuns == 2        \* times the same transfer is requested
MaxWrites == 3      \* create calls followed in a batch loop that does not end

NULL == "null"
UNDEFINED == "undefined"

Orgs == {"orgA", "orgB"}

\* ------------------------------------------------------- describe results
Field(n, t, refTo, rel, cr, up) ==
    [name |-> n, type |-> t, referenceTo |-> refTo, relationshipName |-> rel,
     createable |-> cr, updateable |-> up, calculated |-> FALSE, autoNumber |-> FALSE]

\* What the source org answers to describe(sobjectType).
Describe(sobjectType) ==
    CASE sobjectType = "Account" ->
           << Field("Id", "id", <<>>, NULL, FALSE, FALSE),
              Field("Name", "string", <<>>, NULL, TRUE, TRUE),
              Field("Region__pc", "string", <<>>, NULL, TRUE, TRUE) >>
      [] sobjectType = "Contact" ->
           << Field("Id", "id", <<>>, NULL, FALSE, FALSE),
              Field("Name", "string", <<>>, NULL, TRUE, TRUE),
              Field("AccountId", "reference", <<"Account">>, "Account", TRUE, TRUE),
              Field("CreatedById", "reference", <<"User">>, "CreatedBy", FALSE, FALSE) >>
      [] sobjectType = "User" ->
           << Field("Id", "id", <<>>, NULL, FALSE, FALSE),
              Field("Name", "string", <<>>, NULL, TRUE, TRUE),
              Field("ManagerId", "reference", <<"User">>, "Manager", TRUE, TRUE),
              Field("LastLoginDate", "datetime", <<>>, NULL, TRUE, FALSE) >>
      [] OTHER -> <<>>

Range(s) == {s[k] : k \in 1..Len(s)}

\* record[key], undefined when the key is missing
Get(rec, key) == IF key \in DOMAIN rec THEN rec[key] ELSE UNDEFINED

\* JavaScript truthiness of the values of the model
Truthy(v) == v \notin {NULL, UNDEFINED, ""}

\* record[key] = value on a copy
Put(rec, key, value) ==
    [k \in (DOMAIN rec) \cup {key} |-> IF k = key THEN value ELSE rec[k]]

EmptyMap == [k \in {} |-> NULL]

\* ------------------------------------------------------------ sanitizer
systemFields ==
    {"Id", "attributes", "CreatedDate", "CreatedById", "LastModifiedDate",
     "LastModifiedById", "SystemModstamp", "LastActivityDate", "LastViewedDate",
     "LastReferencedDate", "Owner", "IsDeleted", "MasterRecordId",
     "ConnectionReceivedId", "ConnectionSentId", "PhotoUrl"}

systemTimestamps == {"LastLoginDate", "LastPasswordChangeDate", "EmailBouncedDate"}

\* key.endsWith('__pc'), over the keys that occur in the model
EndsWithPc(key) == key \in {"Region__pc"}

\* key.match(/(Date|Time)$/i), over the keys that occur in the model
EndsWithDateOrTime(key) ==
    key \in {"CreatedDate", "LastModifiedDate", "LastActivityDate", "LastViewedDate",
             "LastReferencedDate", "LastLoginDate", "LastPasswordChangeDate",
             "EmailBouncedDate"}

\* typeof v === 'string'
IsString(v) == v \notin {NULL, UNDEFINED, "obj"}

Restrict(rec, keys) == [k \in keys |-> rec[k]]

\* removeSystemFields on the copy it is handed: the three deletion passes
removeSystemFields(record) ==
    LET pass1 == (DOMAIN record) \ systemFields
        pass2 == {k \in pass1 : ~EndsWithPc(k)}
        pass3 == {k \in pass2 : ~(EndsWithDateOrTime(k) /\ IsString(record[k])
                                    /\ k \in systemTimestamps)}
    IN  Restrict(record, pass3)

systemFieldNames ==
    {"Owner", "CreatedDate", "CreatedById", "LastModifiedDate", "LastModifiedById",
     "SystemModstamp", "LastActivityDate", "LastViewedDate", "LastReferencedDate",
     "IsDeleted", "MasterRecordId", "PhotoUrl"}

isInsertableField(field) ==
    /\ field.name \notin systemFieldNames
    /\ ~EndsWithPc(field.name)
    /\ ~field.calculated
    /\ field.type # "formula"

\* ------------------------------------------------------------ queries
\* A custom SOQL text is kept as its sequence of tokens.
QueryContact == <<"SELECT", "Id", "Name", "AccountId", "CreatedById", "FROM", "Contact">>
QueryNoObject == <<"SELECT", "Id", "FROM">>
CustomQueries == {QueryContact, QueryNoObject}

\* [a-zA-Z0-9_]+
IsIdentifier(tok) == tok \notin {"(", ")", ",", "*", "="}

\* a parser that falls back to Account when it finds no object
parseFromObjectGuessing(soql) ==
    LET hits == {p \in 1..(Len(soql) - 1) : soql[p] = "FROM" /\ IsIdentifier(soql[p + 1])}
    IN  IF hits = {} THEN "Account"
        ELSE soql[(CHOOSE p \in hits : \A q \in hits : p <= q) + 1]

\* /\bFROM\s+([a-zA-Z0-9_]+)\b/i.exec(soql): the token after the first FROM
\* that is followed by an identifier, null when there is none
parseFromObject(soql) ==
    LET hits == {p \in 1..(Len(soql) - 1) : soql[p] = "FROM" /\ IsIdentifier(soql[p + 1])}
    IN  IF hits = {} THEN NULL
        ELSE soql[(CHOOSE p \in hits : \A q \in hits : p <= q) + 1]

\* the keys of the records a custom query returns: its select list
SelectList(soql) ==
    LET froms == {p \in 1..Len(soql) : soql[p] = "FROM"}
        stop == IF froms = {} THEN Len(soql) + 1
                ELSE CHOOSE p \in froms : \A q \in froms : p <= q
    IN  {soql[p] : p \in 2..(stop - 1)}

\* the select list transferObjectRecords builds: writable fields, plus the
\* relationship names of the reference fields when relationships are included
ObjectQueryFields(metadata, includeRelationships) ==
    LET base == {metadata[k].name : k \in {j \in 1..Len(metadata) :
                     metadata[j].createable \/ metadata[j].updateable}}
        rels == {metadata[k].relationshipName : k \in {j \in 1..Len(metadata) :
                     metadata[j].type = "reference" /\ Truthy(metadata[j].relationshipName)}}
    IN  IF includeRelationships THEN base \cup rels ELSE base

\* ------------------------------------------------------- source records
RefChoices == {NULL, "a1", "a2"}

\* the value the source holds under a key, for a record whose AccountId is ref
SourceValue(key, ref) ==
    CASE key = "attributes" -> "attr"
      [] key = "AccountId" -> ref
      [] key = "Account" -> IF ref = NULL THEN NULL ELSE "obj"
      [] key = "CreatedById" -> "u1"
      [] key = "CreatedBy" -> "obj"
      [] OTHER -> "v"

\* the record lists a source query over the given keys can return
QueryResponses(keys) ==
    {[j \in 1..n |-> [k \in keys \cup {"attributes"} |-> SourceValue(k, refs[j])]] :
        <<n, refs>> \in {<<m, r>> \in (0..MaxRecs) \X [1..MaxRecs -> RefChoices] : TRUE}}

\* an index handed to Array.prototype.slice: a negative one counts from the
\* end, and both kinds are clamped to the array
SliceIndex(len, k) ==
    IF k < 0 THEN (IF len + k < 0 THEN 0 ELSE len + k)
    ELSE (IF k > len THEN len ELSE k)

\* records.slice(i, i + batchSize)
Slice(recs, i, batchSize) ==
    LET from == SliceIndex(Len(recs), i)
        to == SliceIndex(Len(recs), i + batchSize)
    IN  [j \in 1..(IF to > from THEN to - from ELSE 0) |-> recs[from + j]]

\* a batch loop that advances by one record instead of one batch
NextOffsetByOne(i, batchSize) == i + 1

\* i += batchSize
NextOffset(i, batchSize) == i + batchSize

\* -------------------------------------------------- relationship handling
\* metadata.fields.filter(type === 'reference' && referenceTo non-empty)
ReferenceFields(metadata) ==
    SelectSeq(metadata, LAMBDA f : f.type = "reference" /\ Len(f.referenceTo) > 0)

\* the places <<record, reference field>> of the batch that name a parent of type p
ParentPlaces(batch, refs, p) ==
    {pl \in (1..Len(batch)) \X (1..Len(refs)) :
        /\ refs[pl[2]].referenceTo[1] = p
        /\ Truthy(Get(batch[pl[1]], refs[pl[2]].name))
        /\ IsString(Get(batch[pl[1]], refs[pl[2]].name))}

\* parentIdsByObject[p]
ParentIds(batch, refs, p) ==
    {Get(batch[pl[1]], refs[pl[2]].name) : pl \in ParentPlaces(batch, refs, p)}

RECURSIVE OrderedBy(_, _)
\* the elements of a set as a sequence of ascending rank
OrderedBy(set, rank) ==
    IF set = {} THEN <<>>
    ELSE LET first == CHOOSE x \in set : \A y \in set : rank[x] <= rank[y]
         IN  <<first>> \o OrderedBy(set \ {first}, rank)

\* Object.entries(parentIdsByObject): the parent types in the order in which
\* the double loop over records and reference fields first meets them
ParentObjects(batch, refs) ==
    LET types == {p \in {refs[f].referenceTo[1] : f \in 1..Len(refs)} :
                      ParentPlaces(batch, refs, p) # {}}
        rank == [p \in types |->
                   LET at == {pl[1] * (Len(refs) + 1) + pl[2] : pl \in ParentPlaces(batch, refs, p)}
                   IN  CHOOSE m \in at : \A other \in at : m <= other]
    IN  OrderedBy(types, rank)

\* the id the target gives to (or holds for) the copy of a source parent
TargetId(sourceId) ==
    CASE sourceId = "a1" -> "ta1"
      [] sourceId = "a2" -> "ta2"
      [] sourceId = "u1" -> "tu1"
      [] OTHER -> "tx"

\* an id set as the array the code iterates
IdList(ids) == OrderedBy(ids, [x \in ids |-> IF x = "a1" THEN 1 ELSE IF x = "a2" THEN 2 ELSE 3])

\* a remap loop that blanks the lookups it cannot resolve
RemapFieldNulling(cleaned, name, srcId, idMap) ==
    IF Truthy(srcId)
    THEN Put(cleaned, name, IF Truthy(Get(idMap, srcId)) THEN idMap[srcId] ELSE NULL)
    ELSE cleaned

\* the body of the remap loop for one reference field of one record
RemapField(cleaned, name, srcId, idMap) ==
    IF Truthy(srcId) /\ Truthy(Get(idMap, srcId))
    THEN Put(cleaned, name, idMap[srcId])
    ELSE cleaned

RECURSIVE RemapRecord(_, _, _, _)
\* the loop over referenceFields for one cleaned record and its original
RemapRecord(cleaned, original, refs, idMap) ==
    IF refs = <<>> THEN cleaned
    ELSE RemapRecord(RemapField(cleaned, Head(refs).name, Get(original, Head(refs).name), idMap),
                     original, Tail(refs), idMap)

\* batch.map(record => { cleaned = {...record}; removeSystemFields(cleaned) })
CleanBatch(batch) == [j \in 1..Len(batch) |-> removeSystemFields(batch[j])]

\* the payload handed to targetConn.create for a batch
CleanedBatch(batch, metadata, includeRelationships, idMap) ==
    IF includeRelationships
    THEN [j \in 1..Len(batch) |->
            RemapRecord(CleanBatch(batch)[j], batch[j], ReferenceFields(metadata), idMap)]
    ELSE CleanBatch(batch)

\* ------------------------------------------------------------ REST client
\* What SalesforceRestClient.create can give back for n records: the request
\* is rejected (makeRequest throws), one result object for a single record,
\* or the composite array with one result per record.
CreateResults(n) ==
    {[kind |-> "throw", results |-> <<>>]}
    \cup (IF n = 1 THEN {[kind |-> "single", results |-> <<ok>>] : ok \in BOOLEAN}
          ELSE {[kind |-> "array", results |-> r] : r \in [1..n -> BOOLEAN]})

\* the text of a rejected remote call, after stringifyErrors
RemoteMessage == "Salesforce API error"

\* ------------------------------------------------- parents, insert mode
\* the value the source holds under a key of the parent record with this id
ParentValue(key, id) ==
    CASE key = "attributes" -> "attr"
      [] key = "Id" -> id
      [] key = "ManagerId" -> "u9"
      [] OTHER -> "v"

\* a cleaning of parent records that keeps their lookups
CleanParentKeepingLookups(record, parentDescribe) == removeSystemFields(record)

\* clean = {...record}; removeSystemFields(clean); delete every key whose
\* field of the parent describe is a reference
CleanParent(record, parentDescribe) ==
    LET clean == removeSystemFields(record)
        lookups == {parentDescribe[k].name : k \in {j \in 1..Len(parentDescribe) :
                        parentDescribe[j].type = "reference"}}
    IN  Restrict(clean, (DOMAIN clean) \ lookups)

\* one way a parent handler can end: what it adds to idMapping, what it pushes
\* to result.errors, the remote calls it made, the payload of its create call,
\* the exceptions it caught, the ids of the parent records the source
\* returned and what happened to each of them
Outcome(map, errors, calls, payload, raised, fetched, outcomes) ==
    [map |-> map, errors |-> errors, calls |-> calls, payload |-> payload,
     raised |-> raised, fetched |-> fetched, outcomes |-> outcomes]

NoOutcome(calls) == Outcome(EmptyMap, <<>>, calls, <<>>, 0, <<>>, <<>>)

RECURSIVE InsertedMap(_, _, _)
\* the entries the loop over insertResult adds to idMapping
InsertedMap(parentRecords, results, k) ==
    IF k > Len(results) THEN EmptyMap
    ELSE IF results[k]
         THEN (parentRecords[k]["Id"] :> TargetId(parentRecords[k]["Id"]))
                  @@ InsertedMap(parentRecords, results, k + 1)
         ELSE InsertedMap(parentRecords, results, k + 1)

RECURSIVE InsertedErrors(_, _, _)
\* the errors the loop over insertResult pushes
InsertedErrors(parentObject, results, k) ==
    IF k > Len(results) THEN <<>>
    ELSE IF results[k] THEN InsertedErrors(parentObject, results, k + 1)
         ELSE <<(<<"Failed to insert parent", parentObject, RemoteMessage>>)>>
                  \o InsertedErrors(parentObject, results, k + 1)

\* Every way handleInsertModeParents can end for one parent type.
handleInsertModeParents(parentObject, parentIds) ==
    LET parentDescribe == Describe(parentObject)
        insertableFields ==
            {parentDescribe[k].name : k \in {j \in 1..Len(parentDescribe) :
                 /\ parentDescribe[j].createable
                 /\ ~parentDescribe[j].autoNumber
                 /\ parentDescribe[j].name # "Id"
                 /\ isInsertableField(parentDescribe[j])}}
        caught(calls, payload, ids) ==
            Outcome(EmptyMap,
                    <<(<<"Error handling insert mode parents", parentObject, RemoteMessage>>)>>,
                    calls, payload, 1, ids, [j \in 1..Len(ids) |-> "threw"])
        D == <<"describe", "source">>
        Q == <<"query", "source">>
        C == <<"create", "target">>
        created(fetched) ==
            LET ids == IdList(fetched)
                parentRecords ==
                    [j \in 1..Len(ids) |->
                        [k \in insertableFields \cup {"Id", "attributes"} |->
                            ParentValue(k, ids[j])]]
                cleanParents ==
                    [j \in 1..Len(parentRecords) |-> CleanParent(parentRecords[j], parentDescribe)]
                outcomes(r) ==
                    [j \in 1..Len(ids) |-> IF r.results[j] THEN "created" ELSE "rejected"]
            IN  {IF r.kind = "throw" THEN caught({D, Q, C}, cleanParents, ids)
                 ELSE IF r.kind = "array"
                      THEN Outcome(InsertedMap(parentRecords, r.results, 1),
                                   InsertedErrors(parentObject, r.results, 1),
                                   {D, Q, C}, cleanParents, 0, ids, outcomes(r))
                      ELSE Outcome(EmptyMap, <<>>, {D, Q, C}, cleanParents, 0, ids, outcomes(r)) :
                 r \in CreateResults(Len(parentRecords))}
    IN  {caught({D}, <<>>, <<>>)}
        \cup (IF insertableFields = {} THEN {NoOutcome({D})}
              ELSE {caught({D, Q}, <<>>, <<>>)}
                   \cup UNION {IF fetched = {} THEN {NoOutcome({D, Q})} ELSE created(fetched) :
                                  fetched \in SUBSET parentIds})

\* ------------------------------------------------- parents, upsert mode
\* what the loop over parentRecords meets for one record: no external id
\* value, a target record with that value, none, or a rejected target query
LookupResults == {"noValue", "found", "missing", "throw"}

RECURSIVE LookedUpMap(_, _, _)
LookedUpMap(ids, lookups, k) ==
    IF k > Len(ids) THEN EmptyMap
    ELSE IF lookups[k] = "found"
         THEN (ids[k] :> TargetId(ids[k])) @@ LookedUpMap(ids, lookups, k + 1)
         ELSE LookedUpMap(ids, lookups, k + 1)

RECURSIVE LookedUpErrors(_, _, _, _)
LookedUpErrors(parentObject, ids, lookups, k) ==
    IF k > Len(ids) THEN <<>>
    ELSE (CASE lookups[k] = "missing" ->
                  <<(<<"Parent record not found in target org", parentObject, ids[k]>>)>>
            [] lookups[k] = "throw" ->
                  <<(<<"Error looking up parent", parentObject, RemoteMessage>>)>>
            [] OTHER -> <<>>)
         \o LookedUpErrors(parentObject, ids, lookups, k + 1)

\* an upsert handler that creates the parents as insert mode does
handleUpsertModeParentsCreating(parentObject, parentIds, externalIdMapping) ==
    handleInsertModeParents(parentObject, parentIds)

\* Every way handleUpsertModeParents can end for one parent type.
\* externalIdMapping is [defined, fields]: options.externalIdMapping set or
\* not, and the object -> field name entries it holds.
handleUpsertModeParents(parentObject, parentIds, externalIdMapping) ==
    LET Q == <<"query", "source">>
        T == <<"query", "target">>
        looked(fetched) ==
            {Outcome(LookedUpMap(IdList(fetched), lookups, 1),
                     LookedUpErrors(parentObject, IdList(fetched), lookups, 1),
                     IF \E k \in DOMAIN lookups : lookups[k] # "noValue" THEN {Q, T} ELSE {Q},
                     <<>>,
                     Cardinality({k \in DOMAIN lookups : lookups[k] = "throw"}),
                     IdList(fetched), lookups) :
             lookups \in [1..Cardinality(fetched) -> LookupResults]}
    IN  IF ~externalIdMapping.defined THEN {NoOutcome({})}
        ELSE IF ~Truthy(Get(externalIdMapping.fields, parentObject))
        THEN {Outcome(EmptyMap,
                      <<(<<"No external ID field specified", parentObject, "">>)>>,
                      {}, <<>>, 0, <<>>, <<>>)}
        ELSE {Outcome(EmptyMap,
                      <<(<<"Error handling upsert mode parents", parentObject, RemoteMessage>>)>>,
                      {Q}, <<>>, 1, <<>>, <<>>)}
             \cup UNION {looked(fetched) : fetched \in SUBSET parentIds}

\* ------------------------------------------------------------ the options
Optional(defined, value) == [defined |-> defined, value |-> value]

TypeLists ==
    {<<>>, <<"Account">>, <<"Contact">>, <<"Account", "Contact">>, <<"Contact", "Account">>}

\* entityTypes / customQuery as a startTransfer message or a caller sets them
PathChoices ==
    {[customQuery |-> Optional(TRUE, q), objectTypes |-> Optional(FALSE, <<>>)] : q \in CustomQueries}
    \cup {[customQuery |-> Optional(FALSE, <<>>), objectTypes |-> Optional(TRUE, l)] : l \in TypeLists}
    \cup {[customQuery |-> Optional(FALSE, <<>>), objectTypes |-> Optional(FALSE, <<>>)]}
    \cup {[customQuery |-> Optional(TRUE, QueryContact), objectTypes |-> Optional(TRUE, <<"Account">>)]}

NoMapping == [defined |-> FALSE, fields |-> EmptyMap]

\* options.recordLimits left out
NoLimits == [defined |-> FALSE, limits |-> EmptyMap]

\* includeRelationships, transferMode and externalIdMapping together: the
\* webview collects a mapping only for upsert with relationships
RelationChoices ==
    {[includeRelationships |-> FALSE, transferMode |-> m, externalIdMapping |-> NoMapping] :
        m \in {"insert", "upsert"}}
    \cup {[includeRelationships |-> TRUE, transferMode |-> "insert", externalIdMapping |-> NoMapping],
          [includeRelationships |-> TRUE, transferMode |-> "upsert", externalIdMapping |-> NoMapping],
          [includeRelationships |-> TRUE, transferMode |-> "upsert",
           externalIdMapping |-> [defined |-> TRUE,
                                  fields |-> ("Account" :> "Ext__c") @@ ("User" :> "Ext__c")]],
          [includeRelationships |-> TRUE, transferMode |-> "upsert",
           externalIdMapping |-> [defined |-> TRUE, fields |-> ("Contact" :> "Ext__c")]]}

\* the DataTransferOptions _startTransfer builds
TransferOptions ==
    {[sourceOrg |-> "orgA", targetOrg |-> "orgB",
      customQuery |-> p.customQuery, objectTypes |-> p.objectTypes,
      includeRelationships |-> r.includeRelationships, transferMode |-> r.transferMode,
      externalIdMapping |-> r.externalIdMapping, recordLimits |-> NoLimits,
      batchSize |-> b] :
        p \in PathChoices, r \in RelationChoices, b \in 1..MaxBatch}

\* the runs followed while a query preview is handled beside them
PanelOptions ==
    {o \in TransferOptions :
        /\ ~o.customQuery.defined
        /\ o.objectTypes.defined /\ o.objectTypes.value # <<>>
        /\ ~o.includeRelationships /\ o.transferMode = "insert"}

\* the runs that are repeated: insert mode with relationships over Contact
RerunOptions ==
    {o \in TransferOptions :
        /\ ~o.customQuery.defined
        /\ o.objectTypes.defined /\ o.objectTypes.value = <<"Contact">>
        /\ o.includeRelationships /\ o.transferMode = "insert"}

\* a run over plain object types: insert mode, no relationships
PlainRun(types, limits, b) ==
    [sourceOrg |-> "orgA", targetOrg |-> "orgB",
     customQuery |-> Optional(FALSE, <<>>), objectTypes |-> Optional(TRUE, types),
     includeRelationships |-> FALSE, transferMode |-> "insert",
     externalIdMapping |-> NoMapping, recordLimits |-> limits, batchSize |-> b]

\* the number input of the webview hands over whatever integer was typed;
\* an empty input gives NaN, which is as falsy as 0
BatchSizes == (-1)..MaxBatch

\* the runs followed for the batch loop
BatchOptions ==
    {PlainRun(types, NoLimits, b) :
        types \in {<<"Account">>, <<"Contact">>}, b \in BatchSizes}

\* recordLimits as the webview collects them for the selected objects
LimitChoices ==
    {NoLimits,
     [defined |-> TRUE, limits |-> EmptyMap],
     [defined |-> TRUE, limits |-> ("Account" :> 0)],
     [defined |-> TRUE, limits |-> ("Account" :> 1)]}

\* the runs followed for the record limits
LimitOptions ==
    {PlainRun(types, limits, b) :
        types \in {<<"Account">>, <<"Account", "Contact">>, <<"Account", "Account">>},
        limits \in LimitChoices, b \in 1..MaxBatch}

\* options.recordLimits && options.recordLimits[objectType] ? ` LIMIT ${n}` : ''
LimitClause(recordLimits, objectType) ==
    IF recordLimits.defined /\ objectType \in DOMAIN recordLimits.limits
          /\ recordLimits.limits[objectType] # 0
    THEN [present |-> TRUE, n |-> recordLimits.limits[objectType]]
    ELSE [present |-> FALSE, n |-> 0]

\* the record lists the source returns under a limit clause
Limited(responses, clause) ==
    {recs \in responses : clause.present => Len(recs) <= clause.n}

DefaultBatchSize == 200

Ceil(n, d) == (n + d - 1) \div d

\* a success flag that ignores the errors
SuccessFlagAlways(errors) == TRUE

\* result.success = result.errors.length === 0
SuccessFlag(errors) == errors = <<>>

\* a catch of transferData that swallows the exception
TopLevelCatchSilent(res, error) == res

\* catch of transferData: result.errors.push(`Transfer failed: ${error}`)
TopLevelCatch(res, error) ==
    [res EXCEPT !.errors = Append(@, <<"Transfer failed", "", error>>)]

\* a catch of transferObjectRecords that swallows the exception
ObjectCatchSilent(res, objectType, error) == res

\* catch of transferObjectRecords
ObjectCatch(res, objectType, error) ==
    [res EXCEPT !.errors = Append(@, <<"Error transferring", objectType, error>>)]

\* catch of transferByQuery
QueryCatch(res, objectType, error) ==
    [res EXCEPT !.errors = Append(@, <<"Error transferring by query for", objectType, error>>)]

RECURSIVE WriteErrors(_, _, _)
\* failures.forEach(failure => result.errors.push(`${objectType}: ${errStr}`))
WriteErrors(objectType, results, k) ==
    IF k > Len(results) THEN <<>>
    ELSE IF results[k] THEN WriteErrors(objectType, results, k + 1)
         ELSE <<(<<"Write failed", objectType, RemoteMessage>>)>>
                  \o WriteErrors(objectType, results, k + 1)

\* insertResult.filter(r => r.success).length
SuccessCount(results) == Cardinality({k \in 1..Len(results) : results[k]})

\* a result handling that takes a batch with a failed record as failed
HandleInsertResultAllOrNone(res, objectType, r) ==
    IF SuccessCount(r.results) = Len(r.results)
    THEN [res EXCEPT !.recordsTransferred = @ + Len(r.results)]
    ELSE [res EXCEPT !.errors = Append(@, <<"Write failed", objectType, RemoteMessage>>)]

\* the result after the outcome of one create call has been handled
HandleInsertResult(res, objectType, r) ==
    [res EXCEPT !.recordsTransferred = @ + SuccessCount(r.results),
                !.errors = @ \o WriteErrors(objectType, r.results, 1)]

\* -------------------------------------------------------- stringifyErrors
\* A value handed to stringifyErrors, by the branch that takes it: a string,
\* an Error, an array, another object, or anything else (null, a number).
Value(t, message, status, fields, items) ==
    [t |-> t, message |-> message, status |-> status, fields |-> fields, items |-> items]

Str(m) == Value("string", m, "", <<>>, <<>>)
Err(m) == Value("Error", m, "", <<>>, <<>>)
Obj(m, status, fields) == Value("object", m, status, fields, <<>>)
Arr(items) == Value("array", "", "", <<>>, items)
Other == Value("null", "", "", <<>>, <<>>)

\* a message of more than 200 characters that repeats "Field name provided"
\* for two custom fields
FieldNoise == "Ext1__c: Field name provided ... Ext2__c: Field name provided ..."

\* A text is the sequence of its words; the empty string is the empty text.
Text(m) == IF m = "" THEN <<>> ELSE <<m>>

\* the message of an object after the clean-up of repeated field errors
CleanMessage(m) ==
    IF m = FieldNoise
    THEN "Multiple fields have External ID/indexing issues: Ext1__c, Ext2__c. Check field configurations."
    ELSE m

RECURSIVE UniqueFrom(_, _)
UniqueFrom(errors, k) ==
    IF k > Len(errors) THEN <<>>
    ELSE (IF \E j \in 1..(k - 1) : errors[j] = errors[k] THEN <<>> ELSE <<errors[k]>>)
         \o UniqueFrom(errors, k + 1)

\* a deduplication that keeps the first message only
UniqueFirst(errors) == IF errors = <<>> THEN <<>> ELSE <<errors[1]>>

\* [...new Set(errors)]: the messages in the order of their first occurrence
Unique(errors) == UniqueFrom(errors, 1)

RECURSIVE Join(_)
\* texts.join('; ')
Join(texts) ==
    IF texts = <<>> THEN <<>>
    ELSE IF Len(texts) = 1 THEN texts[1]
    ELSE texts[1] \o <<";">> \o Join(Tail(texts))

\* an array branch that never counts the repetitions
ConsolidateJoining(errors, uniqueErrors) == Join(uniqueErrors)

\* the two returns of the array branch
Consolidate(errors, uniqueErrors) ==
    IF Len(uniqueErrors) = 1 /\ Len(errors) > 1
    THEN uniqueErrors[1] \o <<"(occurred", ToString(Len(errors)), "times)">>
    ELSE Join(uniqueErrors)

RECURSIVE stringifyErrors(_)
stringifyErrors(err) ==
    CASE err.t = "string" -> Text(err.message)
      [] err.t = "Error" -> Text(err.message)
      [] err.t = "array" ->
           LET errors == SelectSeq([k \in 1..Len(err.items) |-> stringifyErrors(err.items[k])],
                                   LAMBDA text : text # <<>>)
           IN  Consolidate(errors, Unique(errors))
      [] err.t = "object" ->
           LET pieces == Text(CleanMessage(err.message))
                         \o (IF err.status # "" THEN <<"code=", err.status>> ELSE <<>>)
                         \o (IF err.fields # <<>> THEN <<"fields=">> \o err.fields ELSE <<>>)
           IN  IF pieces # <<>> THEN pieces ELSE <<"{json}">>
      [] OTHER -> <<"null">>

\* the failures an array handed to stringifyErrors is made of
Failures ==
    {Str(""), Str("m1"), Str("m2"), Err(""), Err("m1"),
     Obj("m1", "400", <<>>), Obj("m2", "", <<"Name">>), Obj("", "", <<>>),
     Obj(FieldNoise, "", <<>>), Other,
     Arr(<<>>), Arr(<<Str("m1"), Str("m1")>>)}

\* the values stringifyErrors is called with
StringifyInputs ==
    Failures \cup {Arr(items) : items \in UNION {[1..n -> Failures] : n \in 0..MaxErrs}}

\* ------------------------------------------------------------ the state
VARIABLES
    sourceConn, targetConn,   \* DataTransferService.sourceConn / targetConn: the org, or null
    lastInit,                 \* the initializeConnections call started last: its caller and state
    pcT,                      \* where the _startTransfer handler stands
    options,                  \* the DataTransferOptions of the run
    result,                   \* the TransferResult of the run
    threw,                    \* transferData left by an exception
    panelMsgs,                \* the messages _startTransfer posted to the webview
    typeIdx,                  \* position of the for loop over options.objectTypes
    records, i,               \* the extracted records and the batch offset
    idMap,                    \* sourceToTargetId of the batch
    parentQueue,              \* parent types of the batch still to handle
    parentPayload,            \* records of the last parent create call
    resolved,                 \* the parent types handled for the batch and how each ended
    copies,                   \* target org: per source parent id, the runs that created a copy
    runs,                     \* number of the transfer request being handled
    rendering,                \* a call of stringifyErrors: its argument and its text
    pcP, previews,            \* the _previewQuery handler and how often it ran
    issued,                   \* the remote calls the transfer issued in its latest step
    audit                     \* counters over the run

vars == <<sourceConn, targetConn, lastInit, pcT, options, result, threw, panelMsgs,
          typeIdx, records, i, idMap, parentQueue, parentPayload, resolved,
          copies, runs, rendering, pcP, previews, issued, audit>>

NoOptions ==
    [sourceOrg |-> NULL, targetOrg |-> NULL,
     customQuery |-> Optional(FALSE, <<>>), objectTypes |-> Optional(FALSE, <<>>),
     includeRelationships |-> FALSE, transferMode |-> "insert",
     externalIdMapping |-> NoMapping, recordLimits |-> NoLimits, batchSize |-> 1]

\* the source ids of the parent records of the model
SourceParentIds == {"a1", "a2", "u1"}

\* a target org without a copy of any source parent
NoCopies == [id \in SourceParentIds |-> <<>>]

NewResult == [success |-> FALSE, recordsTransferred |-> 0, errors |-> <<>>]

NewAudit ==
    [raised |-> 0,        \* exceptions caught by transferData and the functions it calls
     aborted |-> 0,       \* pipelines left through their catch block
     extracted |-> 0,     \* records the extraction queries returned
     expected |-> 0,      \* sum of ceil(n / batchSize) over the extractions
     failed |-> 0,        \* records whose write failed
     writes |-> <<>>,     \* the child create calls: <<typeIdx, offset, size>>
     accounted |-> 0]     \* create calls whose outcome is in the result

\* no request is being handled
Idle ==
    /\ sourceConn = NULL /\ targetConn = NULL
    /\ lastInit = [owner |-> NULL, status |-> "none"]
    /\ pcT = "idle" /\ options = NoOptions /\ result = NewResult /\ threw = FALSE
    /\ panelMsgs = <<>> /\ typeIdx = 0 /\ records = <<>> /\ i = 0
    /\ idMap = EmptyMap /\ parentQueue = <<>> /\ parentPayload = <<>>
    /\ resolved = <<>> /\ copies = NoCopies /\ runs = 1
    /\ pcP = "idle" /\ previews = 0
    /\ issued = {} /\ audit = NewAudit

NoRendering == [pc |-> "idle", err |-> Other, text |-> <<>>]

Init == Idle /\ rendering = NoRendering

\* a remote call as it is issued
Call(op, side, org, status) ==
    [op |-> op, side |-> side, org |-> org, init |-> status]

\* a remote call of the transfer on the connection the engine holds now
TCall(op, side) ==
    Call(op, side, IF side = "source" THEN sourceConn ELSE targetConn, lastInit.status)

IsQueryRun == options.customQuery.defined

\* the object type the current pipeline works on
ObjectType ==
    IF IsQueryRun THEN parseFromObject(options.customQuery.value)
    ELSE options.objectTypes.value[typeIdx]

Metadata == Describe(ObjectType)

\* const batchSize = options.batchSize || 200
BatchSize == IF options.batchSize = 0 THEN DefaultBatchSize ELSE options.batchSize

Batch == Slice(records, i, BatchSize)

\* what is sent to the target while the create call of the batch is awaited
Payload == CleanedBatch(Batch, Metadata, options.includeRelationships, idMap)

\* ------------------------------------------- continuations of transferData
\* transferData returns; _startTransfer posts transferComplete
Return(res, cs, au) ==
    /\ result' = res /\ issued' = cs /\ audit' = au
    /\ pcT' = "finished" /\ panelMsgs' = Append(panelMsgs, "transferComplete")
    /\ records' = <<>> /\ i' = 0 /\ idMap' = EmptyMap /\ parentQueue' = <<>>
    /\ resolved' = <<>>
    /\ UNCHANGED <<typeIdx, threw, parentPayload>>

\* the for loop over options.objectTypes after transferObjectRecords returned
NextObject(res, cs, au) ==
    IF typeIdx < Len(options.objectTypes.value)
    THEN /\ typeIdx' = typeIdx + 1 /\ pcT' = "o_describe"
         /\ result' = res /\ audit' = au
         /\ issued' = cs \cup {TCall("describe", "source")}
         /\ records' = <<>> /\ i' = 0 /\ idMap' = EmptyMap /\ parentQueue' = <<>>
         /\ resolved' = <<>>
         /\ UNCHANGED <<threw, panelMsgs, parentPayload>>
    ELSE Return([res EXCEPT !.success = SuccessFlag(res.errors)], cs, au)

\* transferByQuery / transferObjectRecords returned
PipelineDone(res, cs, au) ==
    IF IsQueryRun
    THEN Return([res EXCEPT !.success = SuccessFlag(res.errors)], cs, au)
    ELSE NextObject(res, cs, au)

\* the catch block of the running pipeline
PipelineCatch(res) ==
    IF IsQueryRun THEN QueryCatch(res, ObjectType, RemoteMessage)
    ELSE ObjectCatch(res, ObjectType, RemoteMessage)

\* the catch block of a pipeline is counted
Aborted(au) == [au EXCEPT !.raised = @ + 1, !.aborted = @ + 1]

\* a batch loop that calls the resolver whatever the options say
ResolveQueueAlways(batch) == ParentObjects(batch, ReferenceFields(Metadata))

\* the parent types ensureParentRecordsExistNew has to handle for the batch:
\* none when it is not called or the schema has no reference field
ResolveQueue(batch) ==
    IF options.includeRelationships
    THEN ParentObjects(batch, ReferenceFields(Metadata))
    ELSE <<>>

\* a cleaning that works on the extracted records themselves
AfterCleaningInPlace(recs, off) ==
    [j \in 1..Len(recs) |->
        IF off < j /\ j <= off + BatchSize THEN removeSystemFields(recs[j]) ELSE recs[j]]

\* the extracted records after batch.map(record => { cleaned = {...record}; ... }):
\* the copies are cleaned, the records are as they were
AfterCleaning(recs, off) == recs

\* one turn of the batch loop up to its first remote call
StartBatch(recs, off, res, cs, au) ==
    LET batch == Slice(recs, off, BatchSize)
        queue == ResolveQueue(batch)
    IN  /\ records' = AfterCleaning(recs, off) /\ i' = off /\ result' = res
        /\ idMap' = EmptyMap /\ parentQueue' = queue /\ resolved' = <<>>
        /\ IF queue = <<>>
           THEN /\ pcT' = "create"
                /\ issued' = cs \cup {TCall("create", "target")}
                /\ audit' = [au EXCEPT !.writes = Append(@, <<typeIdx, off, Len(batch)>>)]
           ELSE /\ pcT' = "resolve" /\ issued' = cs /\ audit' = au
        /\ UNCHANGED <<typeIdx, threw, panelMsgs, parentPayload>>

Engine == <<sourceConn, targetConn, lastInit>>
Preview == <<pcP, previews>>
RunLocals == <<typeIdx, records, i, idMap, parentQueue, parentPayload, resolved>>

\* the target's parent records and the request counter
Outside == <<copies, runs, rendering>>

\* the state of the initializeConnections call started last, after a call of
\* this caller ended with the given state
Ended(by, status) ==
    IF lastInit.owner = by THEN [lastInit EXCEPT !.status = status] ELSE lastInit

\* _startTransfer throws before or inside initializeConnections
TransferError ==
    /\ pcT' = "finished" /\ panelMsgs' = Append(panelMsgs, "transferError")
    /\ issued' = {} /\ UNCHANGED <<result, threw, audit>> /\ UNCHANGED RunLocals

\* ------------------------------------------------- _startTransfer handler
\* startTransfer message: transferStarted is posted, the orgs and tokens are
\* looked up, the options are built and initializeConnections is entered up
\* to its first await.
BeginTransfer(o, tokensOk) ==
          /\ options' = o
          /\ IF tokensOk
             THEN /\ sourceConn' = o.sourceOrg /\ targetConn' = o.targetOrg
                  /\ lastInit' = [owner |-> "T", status |-> "pending"]
                  /\ issued' = {Call("identity", "source", o.sourceOrg, "pending")}
                  /\ pcT' = "initSource" /\ panelMsgs' = <<"transferStarted">>
                  /\ UNCHANGED <<result, threw, audit>> /\ UNCHANGED RunLocals
             ELSE /\ pcT' = "finished"
                  /\ panelMsgs' = <<"transferStarted", "transferError">>
                  /\ issued' = {} /\ UNCHANGED <<result, threw, audit>>
                  /\ UNCHANGED RunLocals /\ UNCHANGED Engine

\* a transfer request handled alone
StartTransfer ==
    /\ pcT = "idle"
    /\ \E o \in TransferOptions, tokensOk \in BOOLEAN : BeginTransfer(o, tokensOk)
    /\ UNCHANGED Preview /\ UNCHANGED Outside

\* a transfer request handled beside a query preview
PanelStartTransfer ==
    /\ pcT = "idle"
    /\ \E o \in PanelOptions, tokensOk \in BOOLEAN : BeginTransfer(o, tokensOk)
    /\ UNCHANGED Preview /\ UNCHANGED Outside

\* await this.sourceConn.identity() of the transfer's initializeConnections
TransferSourceIdentity ==
    /\ pcT = "initSource"
    /\ \E ok \in BOOLEAN :
          IF ok
          THEN /\ pcT' = "initTarget"
               /\ issued' = {TCall("identity", "target")}
               /\ UNCHANGED <<lastInit, result, threw, panelMsgs, audit>> /\ UNCHANGED RunLocals
          ELSE /\ lastInit' = Ended("T", "failed") /\ TransferError
    /\ UNCHANGED <<sourceConn, targetConn, options>> /\ UNCHANGED Preview /\ UNCHANGED Outside

\* await this.targetConn.identity(); then transferData up to its first await
TransferTargetIdentity ==
    /\ pcT = "initTarget"
    /\ \E ok \in BOOLEAN :
          IF ~ok
          THEN /\ lastInit' = Ended("T", "failed") /\ TransferError
          ELSE /\ lastInit' = Ended("T", "ok")
               /\ IF sourceConn = NULL \/ targetConn = NULL
                  THEN \* throw new Error('Connections not initialized')
                       /\ threw' = TRUE /\ pcT' = "finished"
                       /\ panelMsgs' = Append(panelMsgs, "transferError")
                       /\ issued' = {} /\ UNCHANGED <<result, audit>> /\ UNCHANGED RunLocals
                  ELSE IF IsQueryRun
                  THEN IF ObjectType = NULL
                       THEN \* transferByQuery throws, caught by transferData
                            Return(TopLevelCatch(NewResult, "Unable to determine object type"),
                                   {}, [audit EXCEPT !.raised = @ + 1])
                       ELSE /\ pcT' = "q_query" /\ result' = NewResult
                            /\ issued' =
                                 {Call("query", "source", sourceConn, lastInit'.status)}
                            /\ UNCHANGED <<threw, panelMsgs, audit>> /\ UNCHANGED RunLocals
                  ELSE IF ~options.objectTypes.defined
                  THEN Return(TopLevelCatch(NewResult, "No object types provided"),
                              {}, [audit EXCEPT !.raised = @ + 1])
                  ELSE IF options.objectTypes.value = <<>>
                  THEN Return([NewResult EXCEPT !.success = SuccessFlag(NewResult.errors)],
                              {}, audit)
                  ELSE /\ pcT' = "o_describe" /\ typeIdx' = 1 /\ result' = NewResult
                       /\ issued' =
                            {Call("describe", "source", sourceConn, lastInit'.status)}
                       /\ UNCHANGED <<threw, panelMsgs, audit, records, i, idMap,
                                      parentQueue, parentPayload, resolved>>
    /\ UNCHANGED <<sourceConn, targetConn, options>> /\ UNCHANGED Preview /\ UNCHANGED Outside

\* the records an extraction returned are counted
Extracted(au, n) ==
    [au EXCEPT !.extracted = @ + n, !.expected = @ + Ceil(n, BatchSize)]

\* transferByQuery: await this.sourceConn.query(soql)
QueryRunQuery ==
    /\ pcT = "q_query"
    /\ \/ PipelineDone(PipelineCatch(result), {}, Aborted(audit))
       \/ \E recs \in QueryResponses(SelectList(options.customQuery.value)) :
             IF Len(recs) = 0
             THEN PipelineDone(result, {}, audit)
             ELSE /\ pcT' = "q_describe" /\ records' = recs
                  /\ issued' = {TCall("describe", "source")}
                  /\ audit' = Extracted(audit, Len(recs))
                  /\ UNCHANGED <<result, threw, panelMsgs, typeIdx, i, idMap,
                                 parentQueue, parentPayload, resolved>>
    /\ UNCHANGED Engine /\ UNCHANGED options /\ UNCHANGED Preview /\ UNCHANGED Outside

\* transferByQuery: await this.sourceConn.describe(objectType), then the
\* batch loop up to its first remote call
QueryRunDescribe ==
    /\ pcT = "q_describe"
    /\ \/ PipelineDone(PipelineCatch(result), {}, Aborted(audit))
       \/ StartBatch(records, 0, result, {}, audit)
    /\ UNCHANGED Engine /\ UNCHANGED options /\ UNCHANGED Preview /\ UNCHANGED Outside

\* transferObjectRecords: await this.sourceConn.describe(objectType)
ObjectDescribe ==
    /\ pcT = "o_describe"
    /\ \/ PipelineDone(PipelineCatch(result), {}, Aborted(audit))
       \/ /\ pcT' = "o_query"
          /\ issued' = {TCall("query", "source")}
          /\ UNCHANGED <<result, threw, panelMsgs, audit>> /\ UNCHANGED RunLocals
    /\ UNCHANGED Engine /\ UNCHANGED options /\ UNCHANGED Preview /\ UNCHANGED Outside

\* transferObjectRecords: await this.sourceConn.query(query), then the batch
\* loop up to its first remote call
ObjectQuery ==
    /\ pcT = "o_query"
    /\ \/ PipelineDone(PipelineCatch(result), {}, Aborted(audit))
       \/ \E recs \in Limited(QueryResponses(ObjectQueryFields(Metadata, options.includeRelationships)),
                               LimitClause(options.recordLimits, ObjectType)) :
             IF Len(recs) = 0
             THEN PipelineDone(result, {}, audit)
             ELSE StartBatch(recs, 0, result, {}, Extracted(audit, Len(recs)))
    /\ UNCHANGED Engine /\ UNCHANGED options /\ UNCHANGED Preview /\ UNCHANGED Outside

\* what is kept of the handling of one parent type
Resolution(parentObject, ids, out) ==
    [parent |-> parentObject, ids |-> ids, fetched |-> out.fetched,
     outcomes |-> out.outcomes, calls |-> out.calls, payload |-> out.payload]

\* the target's parent records after a parent handler ended: every record of
\* a create call that the target accepted is a new record there
Copied(held, out, run) ==
    [id \in DOMAIN held |->
        IF \E k \in 1..Len(out.fetched) : out.fetched[k] = id /\ out.outcomes[k] = "created"
        THEN Append(held[id], run) ELSE held[id]]

\* a parent handler whose errors are lost
AfterParentsSilent(res, out) == res

\* a parent handler that counts the parents it created as transferred
AfterParentsCounted(res, out) ==
    [res EXCEPT !.errors = @ \o out.errors,
                !.recordsTransferred =
                    @ + Cardinality({k \in 1..Len(out.outcomes) : out.outcomes[k] = "created"})]

\* the result after a parent handler ended: result.errors.push(...) for each
\* failure it met, and nothing else
AfterParents(res, out) == [res EXCEPT !.errors = @ \o out.errors]

\* a resolver that leaves out the parents the target already holds
IdsNotYetCopied(parentObject) ==
    {id \in ParentIds(Batch, ReferenceFields(Metadata), parentObject) : copies[id] = <<>>}

\* const ids = Array.from(idSet): every parent id the batch refers to
IdsToResolve(parentObject) ==
    ParentIds(Batch, ReferenceFields(Metadata), parentObject)

\* ensureParentRecordsExistNew: one turn of the loop over the parent types;
\* after the last one the lookup fields are remapped and create is called
ResolveParent ==
    /\ pcT = "resolve"
    /\ LET parentObject == Head(parentQueue)
           ids == IdsToResolve(parentObject)
           outcomes == IF options.transferMode = "insert"
                       THEN handleInsertModeParents(parentObject, ids)
                       ELSE handleUpsertModeParents(parentObject, ids, options.externalIdMapping)
       IN  \E out \in outcomes :
             /\ idMap' = out.map @@ idMap
             /\ result' = AfterParents(result, out)
             /\ parentQueue' = Tail(parentQueue)
             /\ parentPayload' = IF <<"create", "target">> \in out.calls
                                  THEN out.payload ELSE parentPayload
             /\ resolved' = Append(resolved, Resolution(parentObject, ids, out))
             /\ copies' = Copied(copies, out, runs)
             /\ LET cs == {TCall(c[1], c[2]) : c \in out.calls}
                    au == [audit EXCEPT !.raised = @ + out.raised]
                IN  IF Tail(parentQueue) = <<>>
                    THEN /\ pcT' = "create"
                         /\ issued' = cs \cup {TCall("create", "target")}
                         /\ audit' = [au EXCEPT !.writes = Append(@, <<typeIdx, i, Len(Batch)>>)]
                    ELSE /\ pcT' = "resolve" /\ issued' = cs /\ audit' = au
    /\ UNCHANGED <<threw, panelMsgs, typeIdx, records, i, options, runs, rendering>>
    /\ UNCHANGED Engine /\ UNCHANGED Preview

\* await this.targetConn.create(objectType, cleanedBatch) and the handling of
\* its result, then the next turn of the batch loop or the end of the pipeline
CreateReturns ==
    /\ pcT = "create"
    /\ \E r \in CreateResults(Len(Batch)) :
          IF r.kind = "throw"
          THEN PipelineDone(PipelineCatch(result), {},
                            [Aborted(audit) EXCEPT !.failed = @ + Len(Batch),
                                                   !.accounted = @ + 1])
          ELSE LET res == HandleInsertResult(result, ObjectType, r)
                   au == [audit EXCEPT !.failed = @ + (Len(Batch) - SuccessCount(r.results)),
                                       !.accounted = @ + 1]
                   off == NextOffset(i, BatchSize)
               IN  IF off < Len(records)
                   THEN StartBatch(records, off, res, {}, au)
                   ELSE PipelineDone(res, {}, au)
    /\ UNCHANGED Engine /\ UNCHANGED options /\ UNCHANGED Preview /\ UNCHANGED Outside

\* ------------------------------------------------- _previewQuery handler
Transfer == <<pcT, options, result, threw, panelMsgs, issued, audit>>

\* previewQuery message: org and token are looked up and initializeConnections
\* is entered with the source org on both sides
PreviewQuery ==
    /\ pcP = "idle" /\ previews < MaxPreviews
    /\ previews' = previews + 1
    /\ \E org \in Orgs :
          /\ sourceConn' = org /\ targetConn' = org
          /\ lastInit' = [owner |-> "P", status |-> "pending"]
          /\ pcP' = "initSource"
    /\ UNCHANGED Transfer /\ UNCHANGED RunLocals /\ UNCHANGED Outside

PreviewSourceIdentity ==
    /\ pcP = "initSource"
    /\ \E ok \in BOOLEAN :
          IF ok
          THEN /\ pcP' = "initTarget"
               /\ UNCHANGED lastInit
          ELSE /\ pcP' = "idle" /\ lastInit' = Ended("P", "failed")
    /\ UNCHANGED <<sourceConn, targetConn, previews>>
    /\ UNCHANGED Transfer /\ UNCHANGED RunLocals /\ UNCHANGED Outside

\* the target identity call returns; on success executeQuery is awaited
PreviewTargetIdentity ==
    /\ pcP = "initTarget"
    /\ \E ok \in BOOLEAN :
          IF ok
          THEN /\ pcP' = "query" /\ lastInit' = Ended("P", "ok")
          ELSE /\ pcP' = "idle" /\ lastInit' = Ended("P", "failed")
    /\ UNCHANGED <<sourceConn, targetConn, previews>>
    /\ UNCHANGED Transfer /\ UNCHANGED RunLocals /\ UNCHANGED Outside

\* executeQuery returns or throws; queryPreview or error is posted
PreviewReturns ==
    /\ pcP = "query" /\ pcP' = "idle"
    /\ UNCHANGED previews /\ UNCHANGED Engine
    /\ UNCHANGED Transfer /\ UNCHANGED RunLocals /\ UNCHANGED Outside

\* one startTransfer request, handled with no other request beside it
Next ==
    \/ StartTransfer
    \/ TransferSourceIdentity
    \/ TransferTargetIdentity
    \/ QueryRunQuery
    \/ QueryRunDescribe
    \/ ObjectDescribe
    \/ ObjectQuery
    \/ ResolveParent
    \/ CreateReturns

Spec == Init /\ [][Next]_vars

\* one startTransfer request and previewQuery requests: the webview listener
\* does not wait for a handler, so their segments interleave at every await
NextPanel ==
    \/ PanelStartTransfer
    \/ TransferSourceIdentity
    \/ TransferTargetIdentity
    \/ ObjectDescribe
    \/ ObjectQuery
    \/ CreateReturns
    \/ PreviewQuery
    \/ PreviewSourceIdentity
    \/ PreviewTargetIdentity
    \/ PreviewReturns

SpecPanel == Init /\ [][NextPanel]_vars

\* ------------------------------------------------- the transfer repeated
\* a transfer request that will be repeated
RerunStartTransfer ==
    /\ pcT = "idle"
    /\ \E o \in RerunOptions, tokensOk \in BOOLEAN : BeginTransfer(o, tokensOk)
    /\ UNCHANGED Preview /\ UNCHANGED Outside

\* the same startTransfer message once more, after the handler of the
\* previous one has ended
Rerun ==
    /\ pcT = "finished" /\ runs < MaxRuns
    /\ runs' = runs + 1
    /\ sourceConn' = options.sourceOrg /\ targetConn' = options.targetOrg
    /\ lastInit' = [owner |-> "T", status |-> "pending"]
    /\ issued' = {Call("identity", "source", options.sourceOrg, "pending")}
    /\ pcT' = "initSource" /\ panelMsgs' = <<"transferStarted">>
    /\ result' = NewResult /\ threw' = FALSE /\ audit' = NewAudit
    /\ typeIdx' = 0 /\ parentPayload' = <<>>
    /\ UNCHANGED <<records, i, idMap, parentQueue, resolved>>
    /\ UNCHANGED <<options, copies, rendering>> /\ UNCHANGED Preview

NextRerun ==
    \/ RerunStartTransfer
    \/ TransferSourceIdentity
    \/ TransferTargetIdentity
    \/ ObjectDescribe
    \/ ObjectQuery
    \/ ResolveParent
    \/ CreateReturns
    \/ Rerun

SpecRerun == Init /\ [][NextRerun]_vars

\* ------------------------------------------------------ the batch loop
\* a transfer request with the batch size as typed into the webview
BatchStartTransfer ==
    /\ pcT = "idle"
    /\ \E o \in BatchOptions, tokensOk \in BOOLEAN : BeginTransfer(o, tokensOk)
    /\ UNCHANGED Preview /\ UNCHANGED Outside

\* the create call of a batch returns; the loop is followed for MaxWrites calls
BatchCreateReturns ==
    /\ Len(audit.writes) <= MaxWrites
    /\ CreateReturns

NextBatch ==
    \/ BatchStartTransfer
    \/ TransferSourceIdentity
    \/ TransferTargetIdentity
    \/ ObjectDescribe
    \/ ObjectQuery
    \/ BatchCreateReturns

SpecBatch == Init /\ [][NextBatch]_vars

\* --------------------------------------------------------- record limits
\* a transfer request with record limits
LimitStartTransfer ==
    /\ pcT = "idle"
    /\ \E o \in LimitOptions, tokensOk \in BOOLEAN : BeginTransfer(o, tokensOk)
    /\ UNCHANGED Preview /\ UNCHANGED Outside

NextLimits ==
    \/ LimitStartTransfer
    \/ TransferSourceIdentity
    \/ TransferTargetIdentity
    \/ ObjectDescribe
    \/ ObjectQuery
    \/ CreateReturns

SpecLimits == Init /\ [][NextLimits]_vars

\* --------------------------------------------------------- error texts
\* The engine is handed a failure to turn into text.
InitStringify ==
    /\ Idle
    /\ rendering \in {[pc |-> "called", err |-> e, text |-> <<>>] : e \in StringifyInputs}

\* stringifyErrors(err) returns
StringifyErrors ==
    /\ rendering.pc = "called"
    /\ rendering' = [rendering EXCEPT !.pc = "returned",
                                      !.text = stringifyErrors(rendering.err)]
    /\ UNCHANGED <<copies, runs>> /\ UNCHANGED Engine /\ UNCHANGED Transfer
    /\ UNCHANGED RunLocals /\ UNCHANGED Preview

NextStringify == StringifyErrors

SpecStringify == InitStringify /\ [][NextStringify]_vars

\* ------------------------------------------------------------ properties
\* transferData returned its TransferResult to _startTransfer
Completed ==
    /\ pcT = "finished" /\ panelMsgs # <<>>
    /\ panelMsgs[Len(panelMsgs)] = "transferComplete"

\* C1: whenever transferData returns a TransferResult, on each of its return
\* paths, success is true exactly when the errors list is empty.
C1_SuccessIffNoErrors ==
    Completed => (result.success <=> result.errors = <<>>)

\* a run that transferred records and also collected errors has returned
C1_Witness ==
    /\ Completed /\ result.recordsTransferred > 0
    /\ result.errors # <<>> /\ ~result.success

\* C2: once the connections are established transferData never leaves by an
\* exception: it returns a result, and every exception raised on the way has
\* its entry in the errors list. Only a failed connection setup ends the
\* request without a result.
C2_NoAbortOnceConnected ==
    /\ ~threw
    /\ (pcT = "finished" /\ lastInit.status = "ok") => Completed
    /\ Completed => /\ Len(result.errors) >= audit.raised
                    /\ (audit.raised > 0 => ~result.success)

\* a run returned its result after two of its pipelines had thrown
C2_Witness == Completed /\ audit.aborted >= 2

\* C3: when the pipeline of one requested object type throws, exactly that
\* failure is appended to the errors list, the records counted so far are
\* kept, and the loop goes on with the next requested type; a run over a type
\* list ends only after the last type of the list.
C3_ObjectTypesIndependent ==
    /\ [][(~IsQueryRun /\ audit'.aborted = audit.aborted + 1) =>
            /\ result'.errors =
                   Append(result.errors, <<"Error transferring", ObjectType, RemoteMessage>>)
            /\ result'.recordsTransferred = result.recordsTransferred
            /\ IF typeIdx < Len(options.objectTypes.value)
               THEN pcT' = "o_describe" /\ typeIdx' = typeIdx + 1
               ELSE Completed']_vars
    /\ []((Completed /\ typeIdx > 0) => typeIdx = Len(options.objectTypes.value))

\* the first requested type failed and the second one was still written
C3_Witness ==
    /\ Completed /\ typeIdx = 2 /\ result.errors # <<>>
    /\ result.errors[1] = <<"Error transferring", options.objectTypes.value[1], RemoteMessage>>
    /\ \E k \in 1..Len(audit.writes) : audit.writes[k][1] = 2
    /\ result.recordsTransferred > 0

\* C4: the transfer reads from the source and writes to the target only while
\* the initializeConnections call made last has verified both connections;
\* after that call has failed nothing is read or written.
C4_OnlyWhenVerified ==
    \A c \in issued : c.op # "identity" => c.init # "failed"

\* C5: every read of a run goes to the source org and every write to the
\* target org the run was started with, whatever is handled beside it.
C5_RunConnectionsFixed ==
    \A c \in issued :
        c.op # "identity" =>
            c.org = IF c.side = "source" THEN options.sourceOrg ELSE options.targetOrg

NoSystemKeys(record) ==
    \A key \in DOMAIN record : key \notin systemFields /\ ~EndsWithPc(key)

\* C6: no record sent to the target in a create call, child or parent,
\* holds a key of the system field list or a key ending in __pc.
C6_NoSystemFieldsWritten ==
    /\ pcT = "create" => \A j \in 1..Len(Batch) : NoSystemKeys(Payload[j])
    /\ \A j \in 1..Len(parentPayload) : NoSystemKeys(parentPayload[j])

\* the names of the reference fields of the schema
ReferenceNames(metadata) ==
    {metadata[k].name : k \in {j \in 1..Len(metadata) : metadata[j].type = "reference"}}

\* C7: in every record sent to the target each reference field is absent,
\* or holds the target id the batch's id map gives for the record's source
\* value, or holds the source value itself when the map has no entry for it.
C7_ReferenceValuesSent ==
    pcT = "create" =>
        \A j \in 1..Len(Batch) : \A name \in ReferenceNames(Metadata) :
            LET src == Get(Batch[j], name)
            IN  \/ name \notin DOMAIN Payload[j]
                \/ src \in DOMAIN idMap /\ Payload[j][name] = idMap[src]
                \/ src \notin DOMAIN idMap /\ Payload[j][name] = src

\* a batch is sent with one lookup remapped and another left as it was
C7_Witness ==
    /\ pcT = "create" /\ Len(Batch) = 2
    /\ \E j, k \in 1..2 :
          /\ Get(Batch[j], "AccountId") \in DOMAIN idMap
          /\ Payload[j]["AccountId"] = TargetId(Batch[j]["AccountId"])
          /\ Truthy(Get(Batch[k], "AccountId"))
          /\ Get(Batch[k], "AccountId") \notin DOMAIN idMap
          /\ Payload[k]["AccountId"] = Batch[k]["AccountId"]

\* the object types of the run without a reference field
NoReferenceRun ==
    /\ ~IsQueryRun /\ options.objectTypes.defined
    /\ \A t \in Range(options.objectTypes.value) : ReferenceFields(Describe(t)) = <<>>

\* C8: in insert mode, for object types without reference fields, the run
\* ends with recordsTransferred = records extracted - records whose write failed.
C8_TransferredCount ==
    (Completed /\ options.transferMode = "insert" /\ NoReferenceRun) =>
        result.recordsTransferred = audit.extracted - audit.failed

RECURSIVE SumSizes(_)
SumSizes(writes) ==
    IF writes = <<>> THEN 0 ELSE Head(writes)[3] + SumSizes(Tail(writes))

\* C9: the records extracted for the requested object types are written in
\* ceil(n / batchSize) create calls per type, each of at most batchSize
\* records, which together carry every extracted record once.
C9_WriteCallCount ==
    (Completed /\ ~IsQueryRun) =>
        /\ Len(audit.writes) = audit.expected
        /\ SumSizes(audit.writes) = audit.extracted
        /\ \A k \in 1..Len(audit.writes) : audit.writes[k][3] <= BatchSize

\* C10: create calls are issued in the order of the requested types and, for
\* one type, in extraction order without a gap; a create call is the only
\* remote call in flight until its outcome is in the result.
C10_StableWriteOrder ==
    /\ \A k \in 1..Len(audit.writes) :
          LET w == audit.writes[k]
          IN  IF k > 1 /\ audit.writes[k - 1][1] = w[1]
              THEN w[2] = audit.writes[k - 1][2] + audit.writes[k - 1][3]
              ELSE w[2] = 0 /\ (k > 1 => audit.writes[k - 1][1] < w[1])
    /\ \A k \in 1..Len(audit.writes) : audit.writes[k][1] <= typeIdx
    /\ IF pcT = "create"
       THEN audit.accounted = Len(audit.writes) - 1
       ELSE audit.accounted = Len(audit.writes)

\* both requested types were written, the first one in two batches
C10_Witness ==
    /\ Completed /\ Len(audit.writes) >= 3
    /\ audit.writes[1][1] = 1 /\ audit.writes[2][1] = 1 /\ audit.writes[3][1] = 2

\* the batch is in the hands of the relationship resolver or on its way out
Resolving == pcT \in {"resolve", "create"}

\* an error of the result with this head about this object
HasError(head, object) ==
    \E e \in 1..Len(result.errors) :
        result.errors[e][1] = head /\ result.errors[e][2] = object

\* the run has no external id field for this parent type
NoExternalId(parent) ==
    \/ ~options.externalIdMapping.defined
    \/ ~Truthy(Get(options.externalIdMapping.fields, parent))

\* C11: in upsert mode with relationships, a parent type without an external
\* id field (no entry, or no mapping at all) gets the error "No external ID
\* field specified for <parent>", none of its ids enters the id map, and the
\* children that refer to it are sent with their source id.
C11_MissingExternalIdReported ==
    (Resolving /\ options.transferMode = "upsert") =>
        \A k \in 1..Len(resolved) :
            LET r == resolved[k]
                refs == ReferenceFields(Metadata)
            IN  NoExternalId(r.parent) =>
                  /\ HasError("No external ID field specified", r.parent)
                  /\ \A id \in r.ids : id \notin DOMAIN idMap
                  /\ pcT = "create" =>
                        \A j \in 1..Len(Batch), f \in 1..Len(refs) :
                            (refs[f].referenceTo[1] = r.parent
                               /\ refs[f].name \in DOMAIN Payload[j]) =>
                                  Payload[j][refs[f].name] = Get(Batch[j], refs[f].name)

\* the query text has no identifier after a FROM keyword
NoEntityToken(soql) ==
    ~\E p \in 1..(Len(soql) - 1) : soql[p] = "FROM" /\ IsIdentifier(soql[p + 1])

\* C12: a custom query without an entity token after FROM makes the run end
\* with the parse error before transferData has issued a remote call: nothing
\* is queried, described or written, recordsTransferred is 0 and success false.
C12_QueryParseError ==
    (options.customQuery.defined /\ NoEntityToken(options.customQuery.value)) =>
        /\ pcT \in {"initSource", "initTarget", "finished"}
        /\ \A c \in issued : c.op = "identity"
        /\ audit.extracted = 0 /\ audit.writes = <<>>
        /\ Completed =>
              result = [success |-> FALSE, recordsTransferred |-> 0,
                        errors |-> <<(<<"Transfer failed", "", "Unable to determine object type">>)>>]

\* the run over the query without an object has returned its result
C12_Witness ==
    /\ Completed /\ options.customQuery.value = QueryNoObject
    /\ lastInit.status = "ok" /\ result.errors # <<>>

\* C13: in insert mode every parent record the target created is in the id
\* map with its new id, for one fetched parent as for several; a parent the
\* target rejected has no entry and an error.
C13_InsertedParentsMapped ==
    (Resolving /\ options.transferMode = "insert") =>
        \A k \in 1..Len(resolved) : \A j \in 1..Len(resolved[k].fetched) :
            LET r == resolved[k]
                id == r.fetched[j]
            IN  /\ r.outcomes[j] = "created" =>
                      id \in DOMAIN idMap /\ idMap[id] = TargetId(id)
                /\ r.outcomes[j] = "rejected" =>
                      id \notin DOMAIN idMap /\ HasError("Failed to insert parent", r.parent)

\* C14: in upsert mode with an external id field for the parent type, a
\* fetched parent found in the target is mapped to the id found, one not found
\* is left out with the error that names it, and every referenced id that
\* stays out of the map has an error about its parent type in the result.
C14_UpsertLookupsAccounted ==
    (Resolving /\ options.transferMode = "upsert") =>
        \A k \in 1..Len(resolved) :
            LET r == resolved[k]
            IN  ~NoExternalId(r.parent) =>
                  /\ \A j \in 1..Len(r.fetched) :
                        /\ r.outcomes[j] = "found" =>
                              /\ r.fetched[j] \in DOMAIN idMap
                              /\ idMap[r.fetched[j]] = TargetId(r.fetched[j])
                        /\ r.outcomes[j] = "missing" =>
                              /\ r.fetched[j] \notin DOMAIN idMap
                              /\ \E e \in 1..Len(result.errors) :
                                    result.errors[e] = <<"Parent record not found in target org",
                                                         r.parent, r.fetched[j]>>
                  /\ \A id \in r.ids :
                        id \notin DOMAIN idMap =>
                            \E e \in 1..Len(result.errors) : result.errors[e][2] = r.parent

\* C15: in upsert mode the resolver only reads: for a parent type it issues
\* queries and no create call, and the target gets no parent record.
C15_UpsertCreatesNoParent ==
    options.transferMode = "upsert" =>
        /\ parentPayload = <<>>
        /\ \A id \in DOMAIN copies : copies[id] = <<>>
        /\ \A k \in 1..Len(resolved) : \A c \in resolved[k].calls : c[1] = "query"

\* an upsert batch whose parents were looked up, one found and one not
C15_Witness ==
    /\ pcT = "create" /\ options.transferMode = "upsert"
    /\ \E k \in 1..Len(resolved) :
          /\ <<"query", "target">> \in resolved[k].calls
          /\ "found" \in Range(resolved[k].outcomes)
          /\ "missing" \in Range(resolved[k].outcomes)

\* stringifyErrors has returned the text of an array
RenderedArray == rendering.pc = "returned" /\ rendering.err.t = "array"

\* the texts of the elements of the array
Renders == [k \in 1..Len(rendering.err.items) |-> stringifyErrors(rendering.err.items[k])]

\* all elements of the array render to the same text
SameText == \A k \in 1..Len(Renders) : Renders[k] = Renders[1]

\* the text followed by the number of its occurrences
Occurred(text, n) == text \o <<"(occurred", ToString(n), "times)">>

\* C16 as stated: an array of N >= 2 failures with the same message text
\* renders to that message followed by "(occurred N times)", an array of one
\* failure to its message alone.
C16_OccurredSuffix ==
    RenderedArray =>
        /\ (Len(Renders) >= 2 /\ SameText) =>
              rendering.text = Occurred(Renders[1], Len(Renders))
        /\ Len(Renders) = 1 => rendering.text = Renders[1]

\* C16, amended: an array of N >= 2 failures with the same non-empty message
\* text renders to that message followed by "(occurred N times)", an array of
\* one failure to its message alone.
C16_OccurredSuffixNonEmpty ==
    RenderedArray =>
        /\ (Len(Renders) >= 2 /\ SameText /\ Renders[1] # <<>>) =>
              rendering.text = Occurred(Renders[1], Len(Renders))
        /\ Len(Renders) = 1 => rendering.text = Renders[1]

\* three failures with the message m1 were rendered
C16_Witness ==
    /\ RenderedArray /\ Len(Renders) = 3 /\ SameText
    /\ rendering.text = <<"m1", "(occurred", "3", "times)">>

\* text holds part as a run of consecutive words
Contains(text, part) ==
    \E at \in 0..(Len(text) - Len(part)) :
        \A k \in 1..Len(part) : text[at + k] = part[k]

\* C17: every non-empty message of an element of the array is in the text
\* stringifyErrors returns for the array.
C17_NoMessageDropped ==
    RenderedArray =>
        \A k \in 1..Len(Renders) :
            Renders[k] # <<>> => Contains(rendering.text, Renders[k])

\* an array with a repeated and a distinct message was rendered
C17_Witness ==
    /\ RenderedArray /\ Len(Renders) = 3
    /\ Renders[1] = Renders[2] /\ Renders[3] # Renders[1]
    /\ Renders[1] # <<>> /\ Renders[3] # <<>>
    /\ rendering.text = Renders[1] \o <<";">> \o Renders[3]

\* C18: the errors list of a returned result holds no error twice.
C18_ErrorsDeduplicated ==
    Completed =>
        \A a, b \in 1..Len(result.errors) :
            a # b => result.errors[a] # result.errors[b]

\* C19: insert mode with relationships does not look at what the target
\* holds: in every run the resolver asks for every parent the batch refers to
\* and sends every parent record it fetched in a create call, so each record
\* the target accepts is one more copy, made in the current run.
C19_ParentsCreatedAgain ==
    (Resolving /\ options.transferMode = "insert") =>
        \A k \in 1..Len(resolved) :
            LET r == resolved[k]
            IN  /\ r.ids = ParentIds(Batch, ReferenceFields(Metadata), r.parent)
                /\ r.fetched # <<>> =>
                      /\ <<"create", "target">> \in r.calls
                      /\ Len(r.payload) = Len(r.fetched)
                /\ \A j \in 1..Len(r.fetched) :
                      r.outcomes[j] = "created" =>
                          LET made == copies[r.fetched[j]]
                          IN  made # <<>> /\ made[Len(made)] = runs

\* two runs of one batch each have left two copies of the parent a1
C19_Witness ==
    /\ Completed /\ runs = 2 /\ BatchSize = 2
    /\ copies["a1"] = <<1, 2>>

\* C20: a transfer started with both a custom query and object types, or
\* with neither, ends with an error and extracts and writes nothing.
C20_ExactlyOnePath ==
    (pcT # "idle" /\ options.customQuery.defined = options.objectTypes.defined) =>
        /\ pcT \in {"initSource", "initTarget", "finished"}
        /\ \A c \in issued : c.op = "identity"
        /\ audit.extracted = 0 /\ audit.writes = <<>>
        /\ Completed => (result.errors # <<>> /\ ~result.success)

\* C21: when the create call of a batch returns its results, s of them
\* successful and f failed, recordsTransferred grows by s, f errors (one per
\* failed record) are appended, and the loop goes on with the next batch.
C21_PartialBatchAccounted ==
    [][(pcT = "create" /\ audit'.accounted = audit.accounted + 1
           /\ audit'.aborted = audit.aborted) =>
          LET f == audit'.failed - audit.failed
              s == Len(Batch) - f
          IN  /\ result'.recordsTransferred = result.recordsTransferred + s
              /\ Len(result'.errors) = Len(result.errors) + f
              /\ \A e \in 1..Len(result'.errors) :
                    result'.errors[e] =
                        IF e <= Len(result.errors) THEN result.errors[e]
                        ELSE <<"Write failed", ObjectType, RemoteMessage>>
              /\ IF i + BatchSize < Len(records)
                 THEN i' = i + BatchSize /\ pcT' \in {"resolve", "create"}
                 ELSE pcT' \in {"o_describe", "finished"}]_vars

\* a batch of two records was written, one accepted and one rejected
C21_Witness ==
    /\ Completed /\ audit.writes = <<(<<1, 0, 2>>)>> /\ audit.aborted = 0
    /\ result.recordsTransferred = 1
    /\ result.errors = <<(<<"Write failed", options.objectTypes.value[1], RemoteMessage>>)>>

\* C22: the batch loop ends: every create call carries at least one record
\* at an offset inside the extracted records, so a run issues no more create
\* calls than it extracted records.
C22_BatchLoopAdvances ==
    pcT = "create" =>
        /\ 0 <= i /\ i < Len(records)
        /\ Len(Batch) >= 1
        /\ Len(audit.writes) <= audit.extracted

\* C23: in insert mode no parent record sent to the target holds a key that
\* is a reference field of the parent's schema.
C23_ParentReferencesStripped ==
    options.transferMode = "insert" =>
        \A k \in 1..Len(resolved) : \A j \in 1..Len(resolved[k].payload) :
            (DOMAIN resolved[k].payload[j])
                \cap ReferenceNames(Describe(resolved[k].parent)) = {}

\* a User parent, whose schema has the lookup ManagerId, was created
C23_Witness ==
    /\ pcT = "create" /\ options.transferMode = "insert"
    /\ \E k \in 1..Len(resolved) :
          /\ resolved[k].parent = "User" /\ "created" \in Range(resolved[k].outcomes)
          /\ "ManagerId" \in ReferenceNames(Describe("User"))
          /\ DOMAIN resolved[k].payload[1] = {"Name"}

\* the heads of the errors the parent handlers push
ResolverHeads ==
    {"Failed to insert parent", "Error handling insert mode parents",
     "No external ID field specified", "Parent record not found in target org",
     "Error looking up parent", "Error handling upsert mode parents"}

\* C24: without includeRelationships, or for a schema without reference
\* fields, a batch goes to its create call with an empty id map and without
\* a remote call for a parent type, and no run without includeRelationships
\* has a resolver error or a parent record in the target.
C24_ResolverFrame ==
    /\ (Resolving /\ (~options.includeRelationships \/ ReferenceFields(Metadata) = <<>>)) =>
          /\ pcT = "create" /\ resolved = <<>> /\ idMap = EmptyMap
          /\ issued = {TCall("create", "target")}
    /\ ~options.includeRelationships =>
          /\ \A e \in 1..Len(result.errors) : result.errors[e][1] \notin ResolverHeads
          /\ parentPayload = <<>> /\ copies = NoCopies

\* a batch of Contacts that refer to an Account is written without relationships
C24_Witness ==
    /\ pcT = "create" /\ ~options.includeRelationships
    /\ ObjectType = "Contact" /\ Truthy(Get(Batch[1], "AccountId"))
    /\ Payload[1]["AccountId"] = Batch[1]["AccountId"]

\* the relationship names of the reference fields of the schema
RelationshipNames(metadata) ==
    {metadata[k].relationshipName :
        k \in {j \in 1..Len(metadata) : /\ metadata[j].type = "reference"
                                        /\ Truthy(metadata[j].relationshipName)}}

\* C25: with includeRelationships no record sent to the target holds a key
\* that is the relationship name of a reference field.
C25_RelationshipNamesNotWritten ==
    (pcT = "create" /\ options.includeRelationships) =>
        \A j \in 1..Len(Batch) :
            (DOMAIN Payload[j]) \cap RelationshipNames(Metadata) = {}

\* C26: an exception met while one parent type is handled is caught by its
\* handler: its error, naming the parent type, is appended, the pipeline is
\* not left, the entries of the id map stay, the next parent type is handled
\* and after the last one the batch is written.
C26_ResolverFailureCaught ==
    [][(pcT = "resolve" /\ audit'.raised > audit.raised) =>
          /\ Len(result'.errors) >= Len(result.errors) + (audit'.raised - audit.raised)
          /\ \A e \in 1..Len(result'.errors) :
                IF e <= Len(result.errors) THEN result'.errors[e] = result.errors[e]
                ELSE /\ result'.errors[e][1] \in ResolverHeads
                     /\ result'.errors[e][2] = Head(parentQueue)
          /\ audit'.aborted = audit.aborted
          /\ \A id \in DOMAIN idMap : id \in DOMAIN idMap' /\ idMap'[id] = idMap[id]
          /\ parentQueue' = Tail(parentQueue) /\ records' = records /\ i' = i
          /\ IF Tail(parentQueue) = <<>>
             THEN pcT' = "create" /\ Len(audit'.writes) = Len(audit.writes) + 1
             ELSE pcT' = "resolve"]_vars

\* the handling of the first parent type failed, the second one was created
\* and the batch is on its way to the target
C26_Witness ==
    /\ pcT = "create" /\ Len(resolved) = 2 /\ audit.aborted = 0
    /\ HasError("Error handling insert mode parents", resolved[1].parent)
    /\ "created" \in Range(resolved[2].outcomes)

RECURSIVE WrittenOfType(_, _)
\* the records of an object type sent in the create calls of the run
WrittenOfType(writes, type) ==
    IF writes = <<>> THEN 0
    ELSE (IF options.objectTypes.value[Head(writes)[1]] = type THEN Head(writes)[3] ELSE 0)
         + WrittenOfType(Tail(writes), type)

\* options.recordLimits holds an integer for the object type
HasLimit(type) ==
    options.recordLimits.defined /\ type \in DOMAIN options.recordLimits.limits

\* C27: with an integer n in recordLimits for an object type the
\* extraction of that type returns at most n records and the run writes at
\* most n records of that type.
C27_RecordLimitHonoured ==
    (pcT # "idle" /\ ~IsQueryRun /\ options.objectTypes.defined) =>
        /\ (Resolving /\ HasLimit(ObjectType)) =>
              Len(records) <= options.recordLimits.limits[ObjectType]
        /\ \A type \in Range(options.objectTypes.value) :
              HasLimit(type) =>
                  WrittenOfType(audit.writes, type) <= options.recordLimits.limits[type]

\* the keys of the records the extraction of the pipeline returns
ExtractedKeys ==
    {"attributes"}
        \cup (IF IsQueryRun THEN SelectList(options.customQuery.value)
              ELSE ObjectQueryFields(Metadata, options.includeRelationships))

\* C28: the extracted records stay as the extraction returned them: while
\* the batches of a pipeline are cleaned, remapped and written every record
\* keeps its keys and its values.
C28_RecordsNotMutated ==
    /\ [](Resolving => \A j \in 1..Len(records) : DOMAIN records[j] = ExtractedKeys)
    /\ [][((Resolving \/ pcT = "q_describe") /\ Resolving' /\ typeIdx' = typeIdx) =>
             records' = records]_vars

\* the second batch of a custom query run is sent with a remapped lookup
\* while its record still holds the source id and the source reference
C28_Witness ==
    /\ pcT = "create" /\ i = 1 /\ IsQueryRun
    /\ "Id" \in DOMAIN records[1] /\ "Id" \in DOMAIN Batch[1]
    /\ Get(Batch[1], "AccountId") \in DOMAIN idMap
    /\ Payload[1]["AccountId"] = TargetId(Batch[1]["AccountId"])
    /\ Payload[1]["AccountId"] # Batch[1]["AccountId"]

\* C29: recordsTransferred never exceeds the number of records sent in the
\* create calls of the requested types so far, never decreases, and is left
\* alone by the handling of parent records.
C29_TransferredBounded ==
    /\ [](result.recordsTransferred <= SumSizes(audit.writes))
    /\ [][result'.recordsTransferred >= result.recordsTransferred]_vars
    /\ [][pcT = "resolve" => result'.recordsTransferred = result.recordsTransferred]_vars

\* a run that created a parent and wrote two children returned with one
\* record transferred
C29_Witness ==
    /\ Completed /\ \E id \in DOMAIN copies : copies[id] # <<>>
    /\ SumSizes(audit.writes) = 2 /\ result.recordsTransferred = 1

\* C30: after transferStarted the handler posts one terminal message,
\* transferComplete or transferError, and never both; it posts it at the
\* latest when as many create calls have returned as records were extracted.
C30_OneTerminalMessage ==
    /\ panelMsgs \in {<<>>, <<"transferStarted">>,
                      <<"transferStarted", "transferComplete">>,
                      <<"transferStarted", "transferError">>}
    /\ (pcT = "finished") <=> (Len(panelMsgs) = 2)
    /\ pcT = "create" => audit.accounted < audit.extracted

====
